---------------------------- MODULE Spec2Model ----------------------------
(***************************************************************************)
(* Sticker Sketchpad (src/src/main.ts): the drawing-command history, the   *)
(* tool preview and the redraw handler, as a state machine with one action *)
(* per event handler.                                                      *)
(*                                                                         *)
(* A DisplayCommand is a closure over mutable state (points / pos), and    *)
(* drawing.commands, redoStack and currentCommand hold REFERENCES to such  *)
(* closures.  The model therefore keeps a heap: an object id stands for a  *)
(* reference, heap[id] for the variables the closure captured.  Objects no *)
(* reference reaches are dropped from the heap, as the JavaScript runtime  *)
(* collects them, and their ids are used again for new objects.            *)
(*                                                                         *)
(* Not modelled: DOM construction, the "Add Sticker" prompt (the sticker   *)
(* buttons are those of the initial list) and the download of the exported *)
(* image (the image itself is the variable exported).                      *)
(*                                                                         *)
(* The program only copies coordinates, widths, colors, glyphs and angles  *)
(* from the events and the tool variables into the closures and on to the  *)
(* canvas; it never branches on them.  Each run of the model therefore     *)
(* varies one of these inputs (the variable axis, fixed in Init) over two  *)
(* values and holds the others at one value; all runs together vary each.  *)
(* One more run varies no input and keeps the history variables, which     *)
(* tell which handler ran last and what it did; the handlers read none of  *)
(* them.                                                                   *)
(***************************************************************************)
EXTENDS Integers, Sequences, FiniteSets, TLC

VARIABLES
    axis,              \* the input that varies in this run (see Inputs), or
                       \*   "history" in the run that keeps the history
    ctx,               \* TRUE iff canvas.getContext("2d") returned a context
    ctxState,          \* drawing-context settings that outlive a redraw
    canvasPixels,      \* what is painted on the canvas, bottom to top
    renderLog,         \* display()/draw() calls made by the last redraw
    cursor,            \* cursor = { active, x, y }
    commands,          \* drawing.commands: sequence of object references
    redoStack,         \* redoStack: sequence of object references
    heap,              \* closure state of every reachable DisplayCommand
    currentCommand,    \* reference or NULL
    currentPreview,    \* ToolPreview closure state or NoPreview
    currentLineWidth,
    currentTool,
    currentSticker,
    currentColor,
    currentRotation,
    lastOp,            \* history: the pointer or Clear/Undo/Redo handler
                       \*   that ran last
    undoSnap,          \* history: what that handler did to the redo stack.
                       \*   "undone": it was an Undo that moved a command
                       \*   (with commands / redoStack as they were before
                       \*   it); "redone": it was a Redo right after such an
                       \*   Undo (with the same snapshot); "discarded": it
                       \*   was a mousedown that emptied a non-empty
                       \*   redoStack
    sinceClear,        \* history: Clear ran and no mousedown since
    stalePreview,      \* history: currentPreview is an object that existed
                       \*   before the last mousedown
    nestedDown,        \* history: the handler that ran last was a mousedown
                       \*   in a session that was already active
    undoRun,           \* history: the Undos that moved a command since the
                       \*   last mousedown or Clear and the Redos that
                       \*   followed them, with commands / redoStack as they
                       \*   were before the first of these Undos
    exported           \* the image the last export produced, or NoExport

vars == <<axis, ctx, ctxState, canvasPixels, renderLog, cursor, commands, redoStack,
          heap, currentCommand, currentPreview, currentLineWidth, currentTool,
          currentSticker, currentColor, currentRotation, lastOp, undoSnap,
          sinceClear, stalePreview, nestedDown, undoRun, exported>>

histVars == <<lastOp, undoSnap, sinceClear, stalePreview, nestedDown, undoRun>>

-----------------------------------------------------------------------------
(* Bounds of the model *)

\* drawing.commands holds at most this many commands
MaxCmds == 2

\* a line command is dragged until it holds at most this many points
MaxPts == 2

-----------------------------------------------------------------------------
(* Inputs *)

Axes == {"history", "context", "press", "move", "width", "color", "glyph",
         "rotation", "export"}

\* two values on the axis a run varies, the first of them on the others
Sample(name, pair) == IF axis = name THEN {pair[1], pair[2]} ELSE {pair[1]}

\* what canvas.getContext("2d") returns: a context (TRUE) or null (FALSE)
getContext == Sample("context", <<TRUE, FALSE>>)

\* what exportCanvas.getContext("2d") returns: a context (TRUE) or null
exportGetContext == Sample("export", <<TRUE, FALSE>>)

\* (offsetX, offsetY) of the mousedown events
PressOffsets == Sample("press", << <<3, 4>>, <<7, 5>> >>)

\* (offsetX, offsetY) of the mousemove events
MoveOffsets == Sample("move", << <<3, 4>>, <<7, 5>> >>)

\* strings randomColor() returns
randomColor == Sample("color", <<"hsl(0, 90%, 45%)", "hsl(180, 90%, 45%)">>)

\* angles randomRotation() returns, in degrees out of -45 .. 45
randomRotation == Sample("rotation", <<-45, 20>>)

-----------------------------------------------------------------------------
(* Program constants *)

NULL == 0

ThinWidth == 2

ThickWidth == 6

\* canvas.width and canvas.height
CanvasSize == 256

\* scale of the export
ExportScale == 4

stickers == <<"art", "sparkles", "cool">>

\* the sticker buttons that are clicked
ClickedStickers == Sample("glyph", <<stickers[1], stickers[2]>>)

NoPreview == [kind |-> "none"]

NoExport == [kind |-> "none"]

NoRun == [undos |-> 0, redos |-> 0, commands |-> <<>>, redoStack |-> <<>>]

\* references
Ids == 1 .. MaxCmds

\* settings of a fresh CanvasRenderingContext2D
DefaultCtxState ==
    [lineWidth |-> 1, strokeStyle |-> "black", globalAlpha |-> 100,
     font |-> "10px sans-serif", textAlign |-> "start",
     textBaseline |-> "alphabetic", origin |-> <<0, 0>>, rotation |-> 0,
     scale |-> 1]

-----------------------------------------------------------------------------
(* Sequences *)

Range(s) == {s[i] : i \in 1 .. Len(s)}

Front(s) == SubSeq(s, 1, Len(s) - 1)

Last(s) == s[Len(s)]

-----------------------------------------------------------------------------
(* Commands *)

makeLineCommand(x, y, lineWidth, color) ==
    [kind |-> "line", points |-> << <<x, y>> >>, lineWidth |-> lineWidth,
     color |-> color]

makeStickerCommand(x, y, emoji, rotation) ==
    [kind |-> "sticker", pos |-> <<x, y>>, emoji |-> emoji,
     rotation |-> rotation]

\* drag with points.unshift for points.push
drag_Unshift(cmd, x, y) ==
    IF cmd.kind = "line"
    THEN [cmd EXCEPT !.points = << <<x, y>> >> \o @]
    ELSE [cmd EXCEPT !.pos = <<x, y>>]

\* cmd.drag(x, y): the closure state afterwards
drag(cmd, x, y) ==
    IF cmd.kind = "line"
    THEN [cmd EXCEPT !.points = Append(@, <<x, y>>)]
    ELSE [cmd EXCEPT !.pos = <<x, y>>]

\* ctx.stroke() of a path under the settings cs
StrokeOp(path, cs) ==
    [op |-> "stroke", path |-> path, lineWidth |-> cs.lineWidth,
     strokeStyle |-> cs.strokeStyle, globalAlpha |-> cs.globalAlpha,
     origin |-> cs.origin, rotation |-> cs.rotation, scale |-> cs.scale]

\* ctx.fillText(text, x, y) under the settings cs
FillTextOp(text, x, y, cs) ==
    [op |-> "fillText", text |-> text, at |-> <<x, y>>, font |-> cs.font,
     textAlign |-> cs.textAlign, textBaseline |-> cs.textBaseline,
     globalAlpha |-> cs.globalAlpha, origin |-> cs.origin,
     rotation |-> cs.rotation, scale |-> cs.scale]

\* ctx.translate(x, y); every call is made with no rotation in effect
Translate(cs, x, y) ==
    [cs EXCEPT !.origin = <<@[1] + x, @[2] + y>>]

\* cmd.display(ctx): what it paints and the settings it leaves behind
display(cmd, cs) ==
    IF cmd.kind = "line"
    THEN IF Len(cmd.points) < 2
         THEN [ops |-> <<>>, cs |-> cs]
         ELSE LET cs1 == [cs EXCEPT !.lineWidth = cmd.lineWidth,
                                    !.strokeStyle = cmd.color]
                  path == [i \in 1 .. Len(cmd.points) - 1 |->
                             [from |-> cmd.points[i], to |-> cmd.points[i + 1]]]
              IN  [ops |-> <<StrokeOp(path, cs1)>>, cs |-> cs1]
    ELSE LET cs1 == [Translate(cs, cmd.pos[1], cmd.pos[2]) EXCEPT
                       !.rotation = @ + cmd.rotation,
                       !.font = "32px sans-serif",
                       !.textAlign = "center",
                       !.textBaseline = "middle"]
         IN  [ops |-> <<FillTextOp(cmd.emoji, 0, 0, cs1)>>, cs |-> cs]

-----------------------------------------------------------------------------
(* Tool previews *)

makeMarkerPreview(x, y, r, color) ==
    [kind |-> "marker", x |-> x, y |-> y, r |-> r, color |-> color]

makeStickerPreview(x, y, emoji, rotation) ==
    [kind |-> "sticker", x |-> x, y |-> y, emoji |-> emoji,
     rotation |-> rotation]

\* draw whose sticker preview has no ctx.save() / ctx.restore()
draw_NoRestore(pv, cs) ==
    IF pv.kind = "marker"
    THEN LET cs1 == [cs EXCEPT !.lineWidth = 2, !.strokeStyle = pv.color]
             path == <<[arc |-> <<pv.x, pv.y>>, radius |-> pv.r \div 2]>>
         IN  [ops |-> <<StrokeOp(path, cs1)>>,
              cs |-> [cs1 EXCEPT !.strokeStyle = "black"]]
    ELSE LET cs1 == [Translate(cs, pv.x, pv.y) EXCEPT
                       !.rotation = @ + pv.rotation,
                       !.font = "32px sans-serif",
                       !.globalAlpha = 50,
                       !.textAlign = "center",
                       !.textBaseline = "middle"]
         IN  [ops |-> <<FillTextOp(pv.emoji, 0, 0, cs1)>>,
              cs |-> [cs1 EXCEPT !.globalAlpha = 100]]

\* preview.draw(ctx): what it paints and the settings it leaves behind
draw(pv, cs) ==
    IF pv.kind = "marker"
    THEN LET cs1 == [cs EXCEPT !.lineWidth = 2, !.strokeStyle = pv.color]
             path == <<[arc |-> <<pv.x, pv.y>>, radius |-> pv.r \div 2]>>
         IN  [ops |-> <<StrokeOp(path, cs1)>>,
              cs |-> [cs1 EXCEPT !.strokeStyle = "black"]]
    ELSE LET cs1 == [Translate(cs, pv.x, pv.y) EXCEPT
                       !.rotation = @ + pv.rotation,
                       !.font = "32px sans-serif",
                       !.globalAlpha = 50,
                       !.textAlign = "center",
                       !.textBaseline = "middle"]
         IN  [ops |-> <<FillTextOp(pv.emoji, 0, 0, cs1)>>, cs |-> cs]

-----------------------------------------------------------------------------
(* Events *)

\* for (const cmd of cmds) cmd.display(ctx), from the settings cs
RECURSIVE displayAll(_, _, _)
displayAll(cmds, hp, cs) ==
    IF cmds = <<>>
    THEN [ops |-> <<>>, cs |-> cs, log |-> <<>>]
    ELSE LET first == display(hp[Head(cmds)], cs)
             rest  == displayAll(Tail(cmds), hp, first.cs)
         IN  [ops |-> first.ops \o rest.ops, cs |-> rest.cs,
              log |-> <<[call |-> "display", cmd |-> Head(cmds)]>> \o rest.log]

\* drawingChanged with the idle check left out: the preview is overlaid
\* whenever there is one
drawingChanged_NoIdleCheck(cmds, hp, active, pv, cs) ==
    LET shown == displayAll(cmds, hp, cs)
    IN  IF pv # NoPreview
        THEN LET over == draw(pv, shown.cs)
             IN  [ops |-> shown.ops \o over.ops, cs |-> over.cs,
                  log |-> Append(shown.log, [call |-> "draw", preview |-> pv])]
        ELSE shown

\* the "drawing-changed" listener, run on a canvas whose settings are cs
drawingChanged(cmds, hp, active, pv, cs) ==
    LET shown == displayAll(cmds, hp, cs)
    IN  IF ~active /\ pv # NoPreview
        THEN LET over == draw(pv, shown.cs)
             IN  [ops |-> shown.ops \o over.ops, cs |-> over.cs,
                  log |-> Append(shown.log, [call |-> "draw", preview |-> pv])]
        ELSE shown

\* triggerDrawingChanged() at the end of a handler: dispatchEvent runs the
\* listener synchronously on the state the handler has just written
triggerDrawingChanged ==
    IF ctx
    THEN LET r == drawingChanged(commands', heap', cursor'.active,
                                 currentPreview', ctxState)
         IN  /\ canvasPixels' = r.ops
             /\ ctxState' = r.cs
             /\ renderLog' = r.log
    ELSE UNCHANGED <<canvasPixels, ctxState, renderLog>>

\* triggerToolMoved(): the "tool-moved" listener calls triggerDrawingChanged
triggerToolMoved == triggerDrawingChanged

-----------------------------------------------------------------------------
(* The heap *)

\* the references the program holds after a handler
Roots(cmds, redo, cur) == (Range(cmds) \cup Range(redo) \cup {cur}) \ {NULL}

\* the reference of the object a mousedown allocates: one that none of
\* the references the handler keeps (those of drawing.commands) is equal to
NewId(cmds) == CHOOSE i \in Ids \ Range(cmds) :
                   \A j \in Ids \ Range(cmds) : i <= j

\* hp restricted to the objects still referenced
Collect(hp, roots) == [i \in roots |-> hp[i]]

-----------------------------------------------------------------------------
(* Initial state: main.ts lines 12-42 *)

Init ==
    /\ axis \in Axes
    /\ ctx \in getContext
    /\ ctxState = DefaultCtxState
    /\ canvasPixels = <<>>
    /\ renderLog = <<>>
    /\ cursor = [active |-> FALSE, x |-> 0, y |-> 0]
    /\ commands = <<>>
    /\ redoStack = <<>>
    /\ heap = <<>>
    /\ currentCommand = NULL
    /\ currentPreview = NoPreview
    /\ currentLineWidth = 2
    /\ currentTool = "marker"
    /\ currentSticker = "art"
    /\ currentColor \in randomColor
    /\ currentRotation \in randomRotation
    /\ lastOp = "init"
    /\ undoSnap = [phase |-> "none"]
    /\ sinceClear = FALSE
    /\ stalePreview = FALSE
    /\ nestedDown = FALSE
    /\ undoRun = NoRun
    /\ exported = NoExport

\* history variables, written by the pointer and Clear/Undo/Redo handlers in
\* the run that keeps the history
Record(op) ==
    IF axis = "history"
    THEN /\ lastOp' = op
         /\ undoSnap' =
              IF op = "undo" /\ commands # <<>>
              THEN [phase |-> "undone", commands |-> commands,
                    redoStack |-> redoStack]
              ELSE IF op = "redo" /\ undoSnap.phase = "undone"
              THEN [undoSnap EXCEPT !.phase = "redone"]
              ELSE IF op = "mousedown" /\ redoStack # <<>>
              THEN [phase |-> "discarded"]
              ELSE [phase |-> "none"]
         /\ sinceClear' = ((op = "clear") \/ (sinceClear /\ op # "mousedown"))
         /\ stalePreview' =
              IF op = "mousedown"
              THEN currentPreview # NoPreview
              ELSE IF op = "mousemove"
                      /\ ~(cursor.active /\ ctx /\ currentCommand # NULL)
              THEN FALSE
              ELSE stalePreview
         /\ nestedDown' = (op = "mousedown" /\ cursor.active)
         /\ undoRun' =
              IF op = "undo" /\ commands # <<>>
              THEN IF undoRun.undos > 0 /\ undoRun.redos = 0
                   THEN [undoRun EXCEPT !.undos = @ + 1]
                   ELSE [undos |-> 1, redos |-> 0, commands |-> commands,
                         redoStack |-> redoStack]
              ELSE IF op = "redo" /\ redoStack # <<>>
              THEN IF undoRun.undos > undoRun.redos
                   THEN [undoRun EXCEPT !.redos = @ + 1]
                   ELSE NoRun
              ELSE IF op \in {"mousedown", "clear"}
              THEN NoRun
              ELSE undoRun
    ELSE UNCHANGED histVars

ToolUnchanged ==
    UNCHANGED <<axis, ctx, exported, currentLineWidth, currentTool,
                currentSticker, currentColor, currentRotation>>

-----------------------------------------------------------------------------
(* Pointer handlers *)

\* MouseDown with "redoStack.pop()" for "redoStack.length = 0": it discards
\* the top of redoStack and keeps the rest
MouseDown_PopsRedo(x, y) ==
    /\ Len(commands) < MaxCmds
    /\ cursor' = [active |-> TRUE, x |-> x, y |-> y]
    /\ redoStack' = IF redoStack = <<>> THEN <<>> ELSE Front(redoStack)
    /\ LET id  == CHOOSE i \in Ids \ (Range(commands) \cup Range(redoStack')) :
                      TRUE
           cmd == IF currentTool = "marker"
                  THEN makeLineCommand(x, y, currentLineWidth, currentColor)
                  ELSE makeStickerCommand(x, y, currentSticker,
                                          currentRotation)
       IN  /\ currentCommand' = id
           /\ commands' = Append(commands, id)
           /\ heap' = [i \in Roots(commands', redoStack', id) |->
                         IF i = id THEN cmd ELSE heap[i]]
    /\ UNCHANGED currentPreview
    /\ ToolUnchanged
    /\ triggerDrawingChanged
    /\ Record("mousedown")

MouseDown(x, y) ==
    /\ Len(commands) < MaxCmds
    /\ cursor' = [active |-> TRUE, x |-> x, y |-> y]
    /\ redoStack' = <<>>
    /\ LET id  == NewId(commands)
           cmd == IF currentTool = "marker"
                  THEN makeLineCommand(x, y, currentLineWidth, currentColor)
                  ELSE makeStickerCommand(x, y, currentSticker,
                                          currentRotation)
       IN  /\ currentCommand' = id
           /\ commands' = Append(commands, id)
           /\ heap' = [i \in Roots(commands', redoStack', id) |->
                         IF i = id THEN cmd ELSE heap[i]]
    /\ UNCHANGED currentPreview
    /\ ToolUnchanged
    /\ triggerDrawingChanged
    /\ Record("mousedown")

\* MouseMove that drags the last command of drawing.commands instead of
\* currentCommand
MouseMove_DragsLast(x, y) ==
    /\ cursor' = [cursor EXCEPT !.x = x, !.y = y]
    /\ UNCHANGED <<commands, redoStack, currentCommand>>
    /\ ToolUnchanged
    /\ IF cursor.active /\ ctx /\ commands # <<>>
       THEN /\ heap[Last(commands)].kind = "line" =>
                  Len(heap[Last(commands)].points) < MaxPts
            /\ heap' = [heap EXCEPT ![Last(commands)] = drag(@, x, y)]
            /\ UNCHANGED currentPreview
            /\ triggerDrawingChanged
       ELSE /\ currentPreview' =
                  IF currentTool = "marker"
                  THEN makeMarkerPreview(x, y, currentLineWidth, currentColor)
                  ELSE makeStickerPreview(x, y, currentSticker,
                                          currentRotation)
            /\ UNCHANGED heap
            /\ triggerToolMoved
    /\ Record("mousemove")

MouseMove(x, y) ==
    /\ cursor' = [cursor EXCEPT !.x = x, !.y = y]
    /\ UNCHANGED <<commands, redoStack, currentCommand>>
    /\ ToolUnchanged
    /\ IF cursor.active /\ ctx /\ currentCommand # NULL
       THEN /\ heap[currentCommand].kind = "line" =>
                  Len(heap[currentCommand].points) < MaxPts
            /\ heap' = [heap EXCEPT ![currentCommand] = drag(@, x, y)]
            /\ UNCHANGED currentPreview
            /\ triggerDrawingChanged
       ELSE /\ currentPreview' =
                  IF currentTool = "marker"
                  THEN makeMarkerPreview(x, y, currentLineWidth, currentColor)
                  ELSE makeStickerPreview(x, y, currentSticker,
                                          currentRotation)
            /\ UNCHANGED heap
            /\ triggerToolMoved
    /\ Record("mousemove")

\* MouseUp that takes a stroke that was never dragged out of
\* drawing.commands again
MouseUp_DropsDegenerate ==
    /\ cursor' = [cursor EXCEPT !.active = FALSE]
    /\ currentCommand' = NULL
    /\ commands' =
         IF /\ currentCommand # NULL
            /\ commands # <<>>
            /\ Last(commands) = currentCommand
            /\ heap[currentCommand].kind = "line"
            /\ Len(heap[currentCommand].points) < 2
         THEN Front(commands)
         ELSE commands
    /\ heap' = Collect(heap, Roots(commands', redoStack, NULL))
    /\ UNCHANGED <<redoStack, currentPreview>>
    /\ ToolUnchanged
    /\ triggerDrawingChanged
    /\ Record("mouseup")

\* MouseUp without "currentCommand = null"
MouseUp_KeepsCommand ==
    /\ cursor' = [cursor EXCEPT !.active = FALSE]
    /\ UNCHANGED <<currentCommand, heap, commands, redoStack, currentPreview>>
    /\ ToolUnchanged
    /\ triggerDrawingChanged
    /\ Record("mouseup")

\* MouseUp without triggerDrawingChanged()
MouseUp_NoRedraw ==
    /\ cursor' = [cursor EXCEPT !.active = FALSE]
    /\ currentCommand' = NULL
    /\ heap' = Collect(heap, Roots(commands, redoStack, NULL))
    /\ UNCHANGED <<commands, redoStack, currentPreview>>
    /\ ToolUnchanged
    /\ UNCHANGED <<canvasPixels, ctxState, renderLog>>
    /\ Record("mouseup")

\* MouseUp that commits: it pushes currentCommand onto drawing.commands
MouseUp_Commits ==
    /\ cursor' = [cursor EXCEPT !.active = FALSE]
    /\ currentCommand' = NULL
    /\ commands' = IF currentCommand # NULL
                   THEN Append(commands, currentCommand)
                   ELSE commands
    /\ heap' = Collect(heap, Roots(commands', redoStack, NULL))
    /\ UNCHANGED <<redoStack, currentPreview>>
    /\ ToolUnchanged
    /\ triggerDrawingChanged
    /\ Record("mouseup")

MouseUp ==
    /\ cursor' = [cursor EXCEPT !.active = FALSE]
    /\ currentCommand' = NULL
    /\ heap' = Collect(heap, Roots(commands, redoStack, NULL))
    /\ UNCHANGED <<commands, redoStack, currentPreview>>
    /\ ToolUnchanged
    /\ triggerDrawingChanged
    /\ Record("mouseup")

-----------------------------------------------------------------------------
(* Buttons *)

\* Clear without "redoStack.length = 0"
Clear_KeepsRedo ==
    /\ commands' = <<>>
    /\ redoStack' = redoStack
    /\ heap' = Collect(heap, Roots(<<>>, redoStack, currentCommand))
    /\ UNCHANGED <<cursor, currentCommand, currentPreview>>
    /\ ToolUnchanged
    /\ triggerDrawingChanged
    /\ Record("clear")

Clear ==
    /\ commands' = <<>>
    /\ redoStack' = <<>>
    /\ heap' = Collect(heap, Roots(<<>>, <<>>, currentCommand))
    /\ UNCHANGED <<cursor, currentCommand, currentPreview>>
    /\ ToolUnchanged
    /\ triggerDrawingChanged
    /\ Record("clear")

\* Undo that puts the command at the bottom of redoStack (unshift for push)
Undo_Unshift ==
    /\ IF Len(commands) > 0
       THEN /\ commands' = Front(commands)
            /\ redoStack' = <<Last(commands)>> \o redoStack
            /\ UNCHANGED <<heap, cursor, currentCommand, currentPreview>>
            /\ triggerDrawingChanged
       ELSE UNCHANGED <<commands, redoStack, heap, cursor, currentCommand,
                        currentPreview, canvasPixels, ctxState, renderLog>>
    /\ ToolUnchanged
    /\ Record("undo")

\* Undo without the length check: pop() of an empty array gives undefined,
\* which is pushed onto redoStack
Undo_NoGuard ==
    /\ commands' = IF Len(commands) > 0 THEN Front(commands) ELSE <<>>
    /\ redoStack' = Append(redoStack,
                           IF Len(commands) > 0 THEN Last(commands) ELSE NULL)
    /\ UNCHANGED <<heap, cursor, currentCommand, currentPreview>>
    /\ UNCHANGED <<canvasPixels, ctxState, renderLog>>
    /\ ToolUnchanged
    /\ Record("undo")

Undo ==
    /\ IF Len(commands) > 0
       THEN /\ commands' = Front(commands)
            /\ redoStack' = Append(redoStack, Last(commands))
            /\ UNCHANGED <<heap, cursor, currentCommand, currentPreview>>
            /\ triggerDrawingChanged
       ELSE UNCHANGED <<commands, redoStack, heap, cursor, currentCommand,
                        currentPreview, canvasPixels, ctxState, renderLog>>
    /\ ToolUnchanged
    /\ Record("undo")

\* Redo with redoStack.shift() for redoStack.pop(): it restores the command
\* at the bottom of redoStack
Redo_Shift ==
    /\ IF Len(redoStack) > 0
       THEN /\ redoStack' = Tail(redoStack)
            /\ commands' = Append(commands, Head(redoStack))
            /\ UNCHANGED <<heap, cursor, currentCommand, currentPreview>>
            /\ triggerDrawingChanged
       ELSE UNCHANGED <<commands, redoStack, heap, cursor, currentCommand,
                        currentPreview, canvasPixels, ctxState, renderLog>>
    /\ ToolUnchanged
    /\ Record("redo")

\* Redo that reads the top of redoStack and leaves it there
Redo_NoPop ==
    /\ IF Len(redoStack) > 0
       THEN /\ redoStack' = redoStack
            /\ commands' = Append(commands, Last(redoStack))
            /\ UNCHANGED <<heap, cursor, currentCommand, currentPreview>>
            /\ triggerDrawingChanged
       ELSE UNCHANGED <<commands, redoStack, heap, cursor, currentCommand,
                        currentPreview, canvasPixels, ctxState, renderLog>>
    /\ ToolUnchanged
    /\ Record("redo")

Redo ==
    /\ IF Len(redoStack) > 0
       THEN /\ redoStack' = Front(redoStack)
            /\ commands' = Append(commands, Last(redoStack))
            /\ UNCHANGED <<heap, cursor, currentCommand, currentPreview>>
            /\ triggerDrawingChanged
       ELSE UNCHANGED <<commands, redoStack, heap, cursor, currentCommand,
                        currentPreview, canvasPixels, ctxState, renderLog>>
    /\ ToolUnchanged
    /\ Record("redo")

HistoryUnchanged ==
    UNCHANGED <<axis, ctx, exported, cursor, commands, redoStack, heap,
                currentCommand, currentPreview>>

NewMarker ==
    /\ currentTool' = "marker"
    /\ currentColor' \in randomColor
    /\ UNCHANGED <<currentLineWidth, currentSticker, currentRotation>>
    /\ HistoryUnchanged
    /\ triggerToolMoved
    /\ UNCHANGED histVars

ThinMarker ==
    /\ currentTool' = "marker"
    /\ currentLineWidth' = ThinWidth
    /\ currentColor' \in randomColor
    /\ UNCHANGED <<currentSticker, currentRotation>>
    /\ HistoryUnchanged
    /\ triggerToolMoved
    /\ UNCHANGED histVars

\* ThickMarker that applies the new width to the lines already drawn
ThickMarker_Restyles ==
    /\ axis = "width"
    /\ currentTool' = "marker"
    /\ currentLineWidth' = ThickWidth
    /\ currentColor' \in randomColor
    /\ heap' = [id \in DOMAIN heap |->
                  IF heap[id].kind = "line"
                  THEN [heap[id] EXCEPT !.lineWidth = ThickWidth]
                  ELSE heap[id]]
    /\ UNCHANGED <<currentSticker, currentRotation>>
    /\ UNCHANGED <<axis, ctx, exported, cursor, commands, redoStack,
                   currentCommand, currentPreview>>
    /\ triggerToolMoved
    /\ UNCHANGED histVars

ThickMarker ==
    /\ axis = "width"
    /\ currentTool' = "marker"
    /\ currentLineWidth' = ThickWidth
    /\ currentColor' \in randomColor
    /\ UNCHANGED <<currentSticker, currentRotation>>
    /\ HistoryUnchanged
    /\ triggerToolMoved
    /\ UNCHANGED histVars

StickerButton(emoji) ==
    /\ currentTool' = "sticker"
    /\ currentSticker' = emoji
    /\ currentRotation' \in randomRotation
    /\ UNCHANGED <<currentLineWidth, currentColor>>
    /\ HistoryUnchanged
    /\ triggerToolMoved
    /\ UNCHANGED histVars

\* Export that overlays the preview as the "drawing-changed" listener does
Export_WithPreview(exportCtx) ==
    /\ axis = "export"
    /\ exported' =
         IF exportCtx
         THEN [kind |-> "png",
               width |-> CanvasSize * ExportScale,
               height |-> CanvasSize * ExportScale,
               ops |-> drawingChanged(commands, heap, cursor.active,
                                      currentPreview,
                                      [DefaultCtxState EXCEPT
                                         !.scale = @ * ExportScale]).ops]
         ELSE exported
    /\ UNCHANGED <<axis, ctx, ctxState, canvasPixels, renderLog, cursor,
                   commands, redoStack, heap, currentCommand, currentPreview,
                   currentLineWidth, currentTool, currentSticker,
                   currentColor, currentRotation>>
    /\ UNCHANGED histVars

\* the click handler of the export button; exportCtx is what
\* exportCanvas.getContext("2d") returns
Export(exportCtx) ==
    /\ axis = "export"
    /\ exported' =
         IF exportCtx
         THEN [kind |-> "png",
               width |-> CanvasSize * ExportScale,
               height |-> CanvasSize * ExportScale,
               ops |-> displayAll(commands, heap,
                                  [DefaultCtxState EXCEPT
                                     !.scale = @ * ExportScale]).ops]
         ELSE exported
    /\ UNCHANGED <<axis, ctx, ctxState, canvasPixels, renderLog, cursor,
                   commands, redoStack, heap, currentCommand, currentPreview,
                   currentLineWidth, currentTool, currentSticker,
                   currentColor, currentRotation>>
    /\ UNCHANGED histVars

-----------------------------------------------------------------------------

Next ==
    \/ \E p \in PressOffsets : MouseDown(p[1], p[2])
    \/ \E p \in MoveOffsets : MouseMove(p[1], p[2])
    \/ MouseUp
    \/ Clear
    \/ Undo
    \/ Redo
    \/ NewMarker
    \/ ThinMarker
    \/ ThickMarker
    \/ \E emoji \in ClickedStickers : StickerButton(emoji)
    \/ \E exportCtx \in exportGetContext : Export(exportCtx)

Spec == Init /\ [][Next]_vars

-----------------------------------------------------------------------------
(* Steps of the handlers, for the properties below *)

MouseDownStep == \E p \in PressOffsets : MouseDown(p[1], p[2])

MouseMoveStep == \E p \in MoveOffsets : MouseMove(p[1], p[2])

ToolStep ==
    \/ NewMarker
    \/ ThinMarker
    \/ ThickMarker
    \/ \E emoji \in ClickedStickers : StickerButton(emoji)

ToolVars == <<currentLineWidth, currentTool, currentSticker, currentColor,
              currentRotation>>

\* the objects drawing.commands and redoStack refer to
Kept == Range(commands) \cup Range(redoStack)

-----------------------------------------------------------------------------
(* C1 *)

\* C1 (inverse law): when an Undo that moved a command is followed at once
\* by a Redo, drawing.commands and redoStack are again what they were
\* before the Undo: the same objects in the same order.
C1_InverseLaw ==
    undoSnap.phase = "redone" =>
        /\ commands = undoSnap.commands
        /\ redoStack = undoSnap.redoStack

\* an Undo and a Redo have run back to back, from a state with two
\* committed commands
C1_Witness ==
    /\ undoSnap.phase = "redone"
    /\ lastOp = "redo"
    /\ Len(commands) = 2

-----------------------------------------------------------------------------
(* C2 *)

\* C2 (branch-discard law): every mousedown leaves redoStack empty and
\* drawing.commands one longer: the commands it held, unchanged and in
\* their places, followed by one new object.
C2_BranchDiscard ==
    [][MouseDownStep =>
          /\ redoStack' = <<>>
          /\ Len(commands') = Len(commands) + 1
          /\ \A i \in 1 .. Len(commands) :
                /\ commands'[i] = commands[i]
                /\ heap'[commands'[i]] = heap[commands[i]]
          /\ commands'[Len(commands')] \notin Range(commands)
          /\ commands'[Len(commands')] = currentCommand']_vars

\* a mousedown has just discarded a non-empty redoStack and appended to a
\* non-empty drawing.commands
C2_Witness ==
    /\ lastOp = "mousedown"
    /\ undoSnap.phase = "discarded"
    /\ Len(commands) = 2
    /\ redoStack = <<>>

-----------------------------------------------------------------------------
(* C3 *)

\* C3: Clear empties drawing.commands and redoStack, whatever the state; and
\* from then until the next mousedown every Undo and every Redo finds both
\* empty and changes nothing.
C3_ClearEmpties ==
    [][/\ Clear => (commands' = <<>> /\ redoStack' = <<>>)
       /\ (sinceClear /\ (Undo \/ Redo)) =>
             /\ commands = <<>> /\ redoStack = <<>>
             /\ commands' = <<>> /\ redoStack' = <<>>
             /\ UNCHANGED <<heap, cursor, currentCommand, currentPreview,
                            canvasPixels>>]_vars

\* Clear ran in the middle of a draw session, and a Redo has run after it
C3_Witness ==
    /\ sinceClear
    /\ lastOp = "redo"
    /\ cursor.active
    /\ currentCommand # NULL
    /\ commands = <<>>
    /\ redoStack = <<>>

-----------------------------------------------------------------------------
(* C4 *)

\* C4 (stack semantics): an Undo on non-empty drawing.commands removes its
\* last element and makes it the last element of redoStack; a Redo on
\* non-empty redoStack removes its last element and makes it the last
\* element of drawing.commands; nothing else in the two arrays moves.
C4_StackSemantics ==
    [][/\ (Undo /\ commands # <<>>) =>
             /\ Len(commands') = Len(commands) - 1
             /\ \A i \in 1 .. Len(commands') : commands'[i] = commands[i]
             /\ Len(redoStack') = Len(redoStack) + 1
             /\ \A i \in 1 .. Len(redoStack) : redoStack'[i] = redoStack[i]
             /\ redoStack'[Len(redoStack')] = commands[Len(commands)]
       /\ (Redo /\ redoStack # <<>>) =>
             /\ Len(redoStack') = Len(redoStack) - 1
             /\ \A i \in 1 .. Len(redoStack') : redoStack'[i] = redoStack[i]
             /\ Len(commands') = Len(commands) + 1
             /\ \A i \in 1 .. Len(commands) : commands'[i] = commands[i]
             /\ commands'[Len(commands')] = redoStack[Len(redoStack)]]_vars

\* the scenario of the claim: stroke A and sticker B committed, two Undos
\* (redoStack = [B, A]), then a Redo: drawing.commands = [A], redoStack = [B]
C4_Witness ==
    /\ undoSnap = [phase |-> "redone", commands |-> <<1>>,
                   redoStack |-> <<2>>]
    /\ commands = <<1>>
    /\ redoStack = <<2>>
    /\ heap[1].kind = "line"
    /\ heap[2].kind = "sticker"

-----------------------------------------------------------------------------
(* C5 *)

\* C5 (empty-stack guard): an Undo when drawing.commands is empty and a Redo
\* when redoStack is empty change nothing: not the two arrays, the session
\* flag, the active command, the preview, the tool variables or the canvas.
C5_EmptyStackNoOp ==
    [][((Undo /\ commands = <<>>) \/ (Redo /\ redoStack = <<>>)) =>
          UNCHANGED <<commands, redoStack, heap, cursor, currentCommand,
                      currentPreview, ToolVars, canvasPixels, ctxState>>]_vars

\* an Undo has run on empty drawing.commands, in the middle of a draw
\* session and with a preview in place
C5_Witness ==
    /\ lastOp = "undo"
    /\ undoSnap.phase = "none"
    /\ commands = <<>>
    /\ redoStack = <<>>
    /\ cursor.active
    /\ currentCommand # NULL
    /\ currentPreview # NoPreview

-----------------------------------------------------------------------------
(* C6 *)

IsDisplay(entry) == entry.call = "display"

IsDraw(entry) == entry.call = "draw"

\* C6: on a canvas with a context, the last redraw called display() on
\* exactly the commands of drawing.commands, once each and in their order,
\* on no command of redoStack, and then called draw() on the preview if and
\* only if no draw session is active and there is a preview.
C6_RenderPass ==
    ctx =>
        LET displays == SelectSeq(renderLog, IsDisplay)
            draws    == SelectSeq(renderLog, IsDraw)
        IN  /\ Len(displays) = Len(commands)
            /\ \A i \in 1 .. Len(commands) :
                  /\ renderLog[i] = [call |-> "display", cmd |-> commands[i]]
                  /\ commands[i] \notin Range(redoStack)
            /\ (draws # <<>>) <=> (~cursor.active /\ currentPreview # NoPreview)
            /\ draws # <<>> =>
                  /\ draws = <<[call |-> "draw", preview |-> currentPreview]>>
                  /\ renderLog[Len(renderLog)].call = "draw"
            /\ cursor.active => draws = <<>>

\* a draw session is active, a preview exists and a command is left in
\* redoStack; the redraw showed the one committed command and nothing else
C6_Witness ==
    /\ ctx
    /\ cursor.active
    /\ currentPreview # NoPreview
    /\ Len(commands) = 1
    /\ Len(redoStack) = 1
    /\ Len(renderLog) = 1
    /\ canvasPixels # <<>>

-----------------------------------------------------------------------------
(* C7 *)

\* the picture the state is rendered to on a canvas with fresh settings
Rendered ==
    drawingChanged(commands, heap, cursor.active, currentPreview,
                   DefaultCtxState).ops

\* C7 (redraw ordering): after every handler the canvas shows the render of
\* the state the handler left: the commands of drawing.commands in order,
\* and the preview if and only if no draw session is active.
C7_RedrawReflectsState ==
    ctx => canvasPixels = Rendered

\* a mousemove has just extended the stroke of an active session, and the
\* canvas shows it
C7_Witness ==
    /\ ctx
    /\ lastOp = "mousemove"
    /\ cursor.active
    /\ currentCommand # NULL
    /\ heap[currentCommand].kind = "line"
    /\ Len(heap[currentCommand].points) = 2
    /\ currentCommand \in Range(commands)
    /\ canvasPixels # <<>>

-----------------------------------------------------------------------------
(* C8 *)

\* C8 (pointer-move dispatch): a mousemove in an active draw session extends
\* the active command (a point appended to a line, a sticker moved) and
\* leaves the preview alone; a mousemove outside a session replaces the
\* preview by one made from the event's position and the tool variables and
\* leaves drawing.commands, redoStack and every command alone.
C8_PointerMoveDispatch ==
    [][\A p \in MoveOffsets :
          MouseMove(p[1], p[2]) =>
              IF cursor.active
              THEN /\ currentCommand # NULL
                   /\ currentCommand \in DOMAIN heap'
                   /\ LET old == heap[currentCommand]
                          new == heap'[currentCommand]
                      IN  IF old.kind = "line"
                          THEN new = [old EXCEPT !.points = Append(@, p)]
                          ELSE new = [old EXCEPT !.pos = p]
                   /\ currentPreview' = currentPreview
              ELSE /\ currentPreview'.x = p[1]
                   /\ currentPreview'.y = p[2]
                   /\ IF currentTool = "marker"
                      THEN /\ currentPreview'.kind = "marker"
                           /\ currentPreview'.r = currentLineWidth
                           /\ currentPreview'.color = currentColor
                      ELSE /\ currentPreview'.kind = "sticker"
                           /\ currentPreview'.emoji = currentSticker
                           /\ currentPreview'.rotation = currentRotation
                   /\ UNCHANGED <<commands, redoStack, heap>>]_vars

-----------------------------------------------------------------------------
(* C9 *)

\* C9: a mouseup ends the draw session (cursor.active false, currentCommand
\* null) and leaves drawing.commands, redoStack and every command they refer
\* to as they were.
C9_MouseUpEndsSession ==
    [][MouseUp =>
          /\ ~cursor'.active
          /\ currentCommand' = NULL
          /\ commands' = commands
          /\ redoStack' = redoStack
          /\ \A id \in Kept : heap'[id] = heap[id]]_vars

\* a mouseup has run with a dragged stroke committed and a command in
\* redoStack
C9_Witness ==
    /\ lastOp = "mouseup"
    /\ ~cursor.active
    /\ Len(commands) = 1
    /\ Len(redoStack) = 1
    /\ \E id \in Kept : heap[id].kind = "line" /\ Len(heap[id].points) = 2

-----------------------------------------------------------------------------
(* C10 *)

\* C10 (freeze): no handler changes the contents of a command other than
\* currentCommand; so a command whose draw session has ended keeps its
\* points, position and style for as long as it exists, in
\* drawing.commands or in redoStack.
C10_FrozenAfterSession ==
    [][\A id \in DOMAIN heap \cap DOMAIN heap' :
          (id # currentCommand /\ ~(MouseDownStep /\ id = currentCommand'))
              => heap'[id] = heap[id]]_vars

\* a mousemove has just dragged the second command while the first, a
\* stroke of an earlier session, is still committed
C10_Witness ==
    /\ ctx
    /\ lastOp = "mousemove"
    /\ cursor.active
    /\ commands = <<1, 2>>
    /\ currentCommand = 2
    /\ heap[1].kind = "line"
    /\ Len(heap[1].points) = 2

-----------------------------------------------------------------------------
(* C11 *)

\* the picture of the commands of drawing.commands alone, on a canvas with
\* fresh settings
Replayed == displayAll(commands, heap, DefaultCtxState).ops

\* C11 (style is recorded, not ambient): the command a mousedown creates
\* holds the tool kind and the width and color, or glyph and rotation, of the
\* tool variables at that moment; a tool button changes no command of
\* drawing.commands or redoStack and, on a canvas with a context, leaves the
\* picture of the commands as it was; and every stroke and glyph painted for
\* a command carries the style that command holds.
C11_StyleRecorded ==
    [][/\ MouseDownStep =>
             LET cmd == heap'[currentCommand']
             IN  IF currentTool = "marker"
                 THEN /\ cmd.kind = "line"
                      /\ cmd.lineWidth = currentLineWidth
                      /\ cmd.color = currentColor
                 ELSE /\ cmd.kind = "sticker"
                      /\ cmd.emoji = currentSticker
                      /\ cmd.rotation = currentRotation
       /\ ToolStep =>
             /\ \A id \in Kept : heap'[id] = heap[id]
             /\ ctx => SubSeq(canvasPixels', 1, Len(Replayed)) =
                          SubSeq(canvasPixels, 1, Len(Replayed))
       /\ \A i \in 1 .. Len(commands) :
             LET cmd   == heap[commands[i]]
                 shown == display(cmd, ctxState).ops
             IN  \A j \in 1 .. Len(shown) :
                    IF cmd.kind = "line"
                    THEN /\ shown[j].lineWidth = cmd.lineWidth
                         /\ shown[j].strokeStyle = cmd.color
                    ELSE /\ shown[j].text = cmd.emoji
                         /\ shown[j].rotation = cmd.rotation]_vars

\* a thin stroke is committed and painted thin, and the tool has since been
\* set to the thick marker
C11_Witness ==
    /\ ctx
    /\ commands = <<1>>
    /\ heap[1].kind = "line"
    /\ Len(heap[1].points) = 2
    /\ heap[1].lineWidth = ThinWidth
    /\ currentLineWidth = ThickWidth
    /\ canvasPixels # <<>>
    /\ canvasPixels[1].lineWidth = ThinWidth

-----------------------------------------------------------------------------
(* C12 *)

\* C12 (preview discard on session start): the preview object that existed
\* before a mousedown is drawn by no redraw after that mousedown.
C12_PreviewDiscarded ==
    (ctx /\ stalePreview) => SelectSeq(renderLog, IsDraw) = <<>>

-----------------------------------------------------------------------------
(* C13 *)

\* the sequence s without its i-th element
Without(s, i) == SubSeq(s, 1, i - 1) \o SubSeq(s, i + 1, Len(s))

\* the command is a stroke of one point
Degenerate(cmd) == cmd.kind = "line" /\ Len(cmd.points) = 1

\* C13 (a degenerate stroke occupies a history slot): a mousedown with the
\* marker tool makes drawing.commands one longer, by a stroke of one point;
\* a mouseup leaves drawing.commands and that stroke as they are; a stroke
\* of one point in drawing.commands adds nothing to the picture; and an Undo
\* while it is the last command removes exactly it and puts it on top of
\* redoStack.
C13_DegenerateStroke ==
    [][/\ (MouseDownStep /\ currentTool = "marker") =>
             /\ Len(commands') = Len(commands) + 1
             /\ Degenerate(heap'[Last(commands')])
       /\ MouseUp =>
             /\ commands' = commands
             /\ \A id \in Range(commands) : heap'[id] = heap[id]
       /\ \A i \in 1 .. Len(commands) :
             Degenerate(heap[commands[i]]) =>
                /\ display(heap[commands[i]], ctxState) =
                      [ops |-> <<>>, cs |-> ctxState]
                /\ ctx => canvasPixels =
                             drawingChanged(Without(commands, i), heap,
                                            cursor.active, currentPreview,
                                            DefaultCtxState).ops
       /\ (Undo /\ commands # <<>> /\ Degenerate(heap[Last(commands)])) =>
             /\ commands' = Front(commands)
             /\ redoStack' = Append(redoStack, Last(commands))
             /\ Degenerate(heap'[Last(redoStack')])]_vars

\* a stroke that was never dragged has been committed after another command,
\* its session has ended, and an Undo has just moved it to redoStack
C13_Witness ==
    /\ lastOp = "undo"
    /\ undoSnap.phase = "undone"
    /\ ~cursor.active
    /\ Len(undoSnap.commands) = 2
    /\ Len(commands) = 1
    /\ redoStack = <<undoSnap.commands[2]>>
    /\ Degenerate(heap[redoStack[1]])

-----------------------------------------------------------------------------
(* C14 *)

\* the segments joining each point of pts to the next one, in order
Segments(pts) ==
    [i \in 1 .. Len(pts) - 1 |-> [from |-> pts[i], to |-> pts[i + 1]]]

\* this mousemove takes the branch that drags currentCommand
Drags == cursor.active /\ ctx /\ currentCommand # NULL

-----------------------------------------------------------------------------
(* C15 *)

\* settings a redraw can find on the canvas: those of a fresh context, those
\* the last redraw left, and those each command and the preview leave when
\* drawn on a fresh context
Leftovers ==
    {DefaultCtxState, ctxState}
        \cup {display(heap[id], DefaultCtxState).cs : id \in DOMAIN heap}
        \cup (IF currentPreview = NoPreview
              THEN {}
              ELSE {draw(currentPreview, DefaultCtxState).cs})

\* C15 (render idempotence): on a canvas with a context, running the redraw
\* again on the unchanged state paints the picture that is on the canvas,
\* makes the same display() / draw() calls and leaves the settings it found;
\* and the picture is the same whichever settings an earlier redraw, command
\* or preview left on the canvas.  (The redraw yields a picture, settings
\* and calls only: it writes no variable of the program.)
C15_RenderIdempotent ==
    ctx =>
        /\ drawingChanged(commands, heap, cursor.active, currentPreview,
                          ctxState) =
              [ops |-> canvasPixels, cs |-> ctxState, log |-> renderLog]
        /\ \A cs \in Leftovers :
              drawingChanged(commands, heap, cursor.active, currentPreview,
                             cs).ops = canvasPixels

\* the last redraw painted a glyph and a stroke and left settings on the
\* canvas that are not those of a fresh context
C15_Witness ==
    /\ ctx
    /\ ctxState # DefaultCtxState
    /\ Len(canvasPixels) = 2
    /\ \E i, j \in 1 .. 2 :
          /\ canvasPixels[i].op = "fillText"
          /\ canvasPixels[j].op = "stroke"

-----------------------------------------------------------------------------
(* C16 *)

\* where the transform of a paint operation puts the point p of user space
\* (for p = (0, 0), or an operation without rotation)
DevicePoint(op, p) ==
    <<op.scale * (op.origin[1] + p[1]), op.scale * (op.origin[2] + p[2])>>

\* the points a paint operation is drawn through, on the surface
DevicePoints(op) ==
    IF op.op = "stroke"
    THEN [i \in 1 .. Len(op.path) |->
            <<DevicePoint(op, op.path[i].from), DevicePoint(op, op.path[i].to)>>]
    ELSE <<DevicePoint(op, op.at)>>

\* the export made from the present state is the replay of drawing.commands
\* at 4 times the size: the same operations in the same order, each through
\* points 4 times as far from the corner
ExportMatches(image) ==
    /\ image.kind = "png"
    /\ image.width = 1024
    /\ image.height = 1024
    /\ image.width = 4 * CanvasSize
    /\ Len(image.ops) = Len(Replayed)
    /\ \A i \in 1 .. Len(Replayed) :
          /\ image.ops[i] = [Replayed[i] EXCEPT !.scale = 4]
          /\ Len(DevicePoints(image.ops[i])) = Len(DevicePoints(Replayed[i]))
          /\ \A j \in 1 .. Len(DevicePoints(Replayed[i])) :
                LET far  == DevicePoints(image.ops[i])[j]
                    near == DevicePoints(Replayed[i])[j]
                IN  IF Replayed[i].op = "stroke"
                    THEN /\ far[1] = <<4 * near[1][1], 4 * near[1][2]>>
                         /\ far[2] = <<4 * near[2][1], 4 * near[2][2]>>
                    ELSE far = <<4 * near[1], 4 * near[2]>>

\* C16 (export): an export that gets a context produces an image of 1024 by
\* 1024 that holds exactly the commands of drawing.commands, in order, every
\* coordinate multiplied by 4, and neither the preview nor a command of
\* redoStack; and an export changes nothing else: not drawing.commands,
\* redoStack, the commands, the preview, the session or the tool variables.
C16_Export ==
    [][\A exportCtx \in exportGetContext :
          Export(exportCtx) =>
             /\ exportCtx => ExportMatches(exported')
             /\ ~exportCtx => exported' = exported
             /\ UNCHANGED <<commands, redoStack, heap, currentPreview, cursor,
                            currentCommand, ToolVars, canvasPixels>>]_vars

\* an export has been made while idle, with a preview on the canvas and a
\* command in redoStack, and nothing has been drawn since
C16_Witness ==
    /\ ctx
    /\ ~cursor.active
    /\ currentPreview # NoPreview
    /\ Len(commands) = 1
    /\ Len(redoStack) = 1
    /\ exported # NoExport
    /\ Len(exported.ops) = 1
    /\ ExportMatches(exported)
    /\ Len(canvasPixels) = 2

-----------------------------------------------------------------------------
(* C17 *)

\* C17: whenever a draw session is active, currentCommand is the last
\* command of drawing.commands.
C17_ActiveIsLast ==
    cursor.active =>
        /\ commands # <<>>
        /\ currentCommand = Last(commands)

-----------------------------------------------------------------------------
(* C18 *)

\* the preview the mousemove listener would make from the cursor position
\* and the tool variables as they are now
FreshPreview ==
    IF currentTool = "marker"
    THEN makeMarkerPreview(cursor.x, cursor.y, currentLineWidth, currentColor)
    ELSE makeStickerPreview(cursor.x, cursor.y, currentSticker,
                            currentRotation)

\* C18: whenever the last redraw drew the preview, the preview is the one
\* of the present tool (kind, width, color, glyph, rotation) at the present
\* cursor position.
C18_PreviewCurrent ==
    (ctx /\ SelectSeq(renderLog, IsDraw) # <<>>) =>
        currentPreview = FreshPreview

-----------------------------------------------------------------------------
(* C19 *)

\* C19: in every reachable state cursor.active is true if and only if
\* currentCommand is not null.
C19_FlagAgreesWithCommand ==
    cursor.active <=> currentCommand # NULL

\* a mousedown has just arrived in a session that was already active, and
\* has made the second command the active one
C19_Witness ==
    /\ nestedDown
    /\ lastOp = "mousedown"
    /\ cursor.active
    /\ commands = <<1, 2>>
    /\ currentCommand = 2

-----------------------------------------------------------------------------
(* C20 *)

Reverse(s) == [i \in 1 .. Len(s) |-> s[Len(s) + 1 - i]]

\* drawing.commands followed by redoStack from its top to its bottom
Timeline == commands \o Reverse(redoStack)

\* C20: every Undo and every Redo leaves the sequence "drawing.commands
\* followed by the reverse of redoStack" and the contents of its commands
\* unchanged; no command occurs twice in that sequence; and when k Undos
\* that each moved a command have been followed by k Redos, with no
\* mousedown or Clear in between, drawing.commands and redoStack are what
\* they were before the first of these Undos.
C20_UndoRedoOnlyMove ==
    [][/\ (Undo \/ Redo) =>
             /\ commands' \o Reverse(redoStack') = Timeline
             /\ \A id \in Kept : heap'[id] = heap[id]
       /\ \A i, j \in 1 .. Len(Timeline) :
             Timeline[i] = Timeline[j] => i = j
       /\ (undoRun.undos > 0 /\ undoRun.redos = undoRun.undos) =>
             /\ commands = undoRun.commands
             /\ redoStack = undoRun.redoStack]_vars

\* two Undos, each moving a command, have been followed by two Redos
C20_Witness ==
    /\ undoRun.undos = 2
    /\ undoRun.redos = 2
    /\ lastOp = "redo"
    /\ Len(commands) = 2

=============================================================================
